---- MODULE Spec2Model ----
(***************************************************************************)
(* The dungeon layout generator of src/scripts/room.mjs: Room (lines       *)
(* 81-340), Generator (lines 458-939) and Tileset.findRooms of             *)
(* src/scripts/tileset.mjs, as a state machine.                            *)
(*                                                                         *)
(* An edge element (EdgeData) is a string:                                 *)
(*   "closed"  the boolean false                                           *)
(*   "unknown" null                                                        *)
(*   "notype"  an object without a type field (open, no kind)              *)
(*   any other string k: the object {type: k} (open, of kind k)            *)
(* A layout cell is <<>> (null, not yet placed) or <<p>> for a placed      *)
(* permutation p.  A wall is a tuple <<x1, y1, x2, y2>> (the field c of    *)
(* the wall data); <<>> stands for the value undefined in a wall list.     *)
(***************************************************************************)
EXTENDS Integers, Sequences, FiniteSets, TLC

VARIABLES
  rooms,        \* Tileset.rooms: the catalog, in insertion order
  size,         \* Generator.size: the preset name
  nRooms,       \* Generator.nRooms
  layout,       \* Generator.layout: layout[x][y], 0-based
  placements,   \* Generator.placements: sequence of <<x, y>>
  attempts,     \* Generator._attempts
  isComplete,   \* the local isComplete of _generate
  pc,           \* position of the caller in generate()
  result,       \* <<>> or <<config>>: the value generate() returned
  error,        \* "" or the message of the error generate() threw
  logged,       \* whether _generate called console.error in this run
  probe         \* a call of one function on its own: its arguments and result

vars == <<rooms, size, nRooms, layout, placements, attempts, isComplete, pc,
          result, error, logged, probe>>

(***************************************************************************)
(* Bounds of the model.                                                    *)
(***************************************************************************)
\* Math.random() is drawn from {0/RandDen, ..., (RandDen-1)/RandDen}
RandDen == 2

Draws == 0 .. (RandDen - 1)

(***************************************************************************)
(* Program constants.                                                      *)
(***************************************************************************)
MAX_ALLOWED_ATTEMPTS == 500
roomSize == 9
gridSize == 200

DIRECTIONS == <<"n", "e", "s", "w">>

Sizes == {"small", "medium", "large"}

\* the preset table of _configure
PresetRooms(s) ==
  CASE s = "small" -> 3
    [] s = "medium" -> 5
    [] s = "large" -> 7

(***************************************************************************)
(* Helpers on sequences and edge elements.                                 *)
(***************************************************************************)
Range(s) == {s[i] : i \in 1..Len(s)}

Rep(v, n) == [i \in 1..n |-> v]

Last(seq) == seq[Len(seq)]

\* JavaScript truthiness of an edge element: !!e
Truthy(e) == e \notin {"closed", "unknown"}

\* !!e.type for an element that is neither false nor null
HasType(e) == e \notin {"closed", "unknown", "notype"}

DirIndex(d) == CHOOSE i \in 1..4 : DIRECTIONS[i] = d

\* Object.values(edges).flat()
FlatEdges(edges) == edges.n \o edges.e \o edges.s \o edges.w

\* reduce((n, e) => ...): the number of elements that are counted
CountTyped(s) == Cardinality({i \in 1..Len(s) : HasType(s[i])})

CountTruthy(s) == Cardinality({i \in 1..Len(s) : Truthy(s[i])})

(***************************************************************************)
(* Room: the transformations of the room data (room.mjs lines 81-340).     *)
(* The walls of a permutation are either an array (kind "array", in        *)
(* items) or an object keyed by direction (kind "object", in n, e, s, w).  *)
(***************************************************************************)
WallsArray(items) ==
  [kind |-> "array", n |-> <<>>, e |-> <<>>, s |-> <<>>, w |-> <<>>,
   items |-> items]

WallsObject(wn, we, ws, ww) ==
  [kind |-> "object", n |-> wn, e |-> we, s |-> ws, w |-> ww, items |-> <<>>]

\* get img(): the path of the image of the room
RoomImg(data) == "tiles/" \o data.name \o ".webp"

\* get nOpen(): reading e.type of a null element is a TypeError
NOpenThrows(data) == \E i \in 1..Len(FlatEdges(data.edges)) :
                        FlatEdges(data.edges)[i] = "unknown"

NOpen(data) == CountTyped(FlatEdges(data.edges))

\* a turn that loses the x coordinate
RotatePointSquashed(x, y) == <<1800 - y, y>>

RotatePointClockwise(x, y) == <<1800 - y, x>>

FlipPointHorizontally(x, y) == <<1800 - x, y>>

FlipPointVertically(x, y) == <<x, 1800 - y>>

RECURSIVE RotateWallTimes(_, _)
RotateWallTimes(wall, k) ==
  IF k = 0 THEN wall
  ELSE LET p1 == RotatePointClockwise(wall[1], wall[2])
           p2 == RotatePointClockwise(wall[3], wall[4])
       IN RotateWallTimes(<<p1[1], p1[2], p2[1], p2[2]>>, k - 1)

RotateEdges(direction, edges) ==
  LET rotations == DirIndex(direction) - 1
  IN [d \in Range(DIRECTIONS) |->
        edges[DIRECTIONS[((DirIndex(d) - 1 + rotations) % 4) + 1]]]

\* walls is the array of the room data; the result is keyed by direction and
\* does not depend on the direction asked for
RotateWalls(direction, walls) ==
  LET bucket(k) == [i \in 1..Len(walls) |-> RotateWallTimes(walls[i], k)]
  IN WallsObject(walls, bucket(1), bucket(2), bucket(3))

RotationOf(direction) ==
  CASE direction = "n" -> 0
    [] direction = "e" -> 90
    [] direction = "s" -> 180
    [] direction = "w" -> 270

\* a rotate that works on this.data itself instead of a duplicate: the n
\* bucket of the result is the walls array of the room
RotateInPlace(data, direction) ==
  [name |-> data.name, size |-> data.size,
   edges |-> RotateEdges(direction, data.edges),
   walls |-> RotateWalls(direction, data.walls),
   rotation |-> RotationOf(direction),
   img |-> "undefined", mirrorX |-> FALSE, mirrorY |-> FALSE,
   shared |-> TRUE]

\* rotate(direction) of the room whose data is given.  shared tells whether
\* walls.n is the very array of the room's data: rotate starts from
\* duplicate(this.data), so it is not
Rotate(data, direction) ==
  [name |-> data.name, size |-> data.size,
   edges |-> RotateEdges(direction, data.edges),
   walls |-> RotateWalls(direction, data.walls),
   rotation |-> RotationOf(direction),
   img |-> "undefined", mirrorX |-> FALSE, mirrorY |-> FALSE,
   shared |-> FALSE]

\* walls.length is undefined for an object keyed by direction: no iteration
FlipWallsHorizontally(walls) ==
  IF walls.kind = "object" THEN WallsArray(<<>>)
  ELSE WallsArray([i \in 1..Len(walls.items) |->
         LET c == walls.items[i]
             p1 == FlipPointHorizontally(c[1], c[2])
             p2 == FlipPointHorizontally(c[3], c[4])
         IN <<p1[1], p1[2], p2[1], p2[2]>>])

FlipWallsVertically(walls) ==
  IF walls.kind = "object" THEN WallsArray(<<>>)
  ELSE WallsArray([i \in 1..Len(walls.items) |->
         LET c == walls.items[i]
             p1 == FlipPointVertically(c[1], c[2])
             p2 == FlipPointVertically(c[3], c[4])
         IN <<p1[1], p1[2], p2[1], p2[2]>>])

\* a flip that copies the west side over the east side and keeps the west
FlipHorizontalOneWay(data) ==
  [data EXCEPT !.edges = [data.edges EXCEPT !.e = data.edges.w],
               !.mirrorX = TRUE,
               !.walls = FlipWallsHorizontally(data.walls),
               !.shared = FALSE]

FlipHorizontal(data) ==
  [data EXCEPT !.edges = [data.edges EXCEPT !.e = data.edges.w,
                                            !.w = data.edges.e],
               !.mirrorX = TRUE,
               !.walls = FlipWallsHorizontally(data.walls),
               !.shared = FALSE]

FlipVertical(data) ==
  [data EXCEPT !.edges = [data.edges EXCEPT !.n = data.edges.s,
                                            !.s = data.edges.n],
               !.mirrorY = TRUE,
               !.shared = FALSE]

\* 12 permutations without a vertical flip: the horizontal flips twice
GetPermutationsNoVertical(data) ==
  LET rotations == [i \in 1..4 |->
                      [Rotate(data, DIRECTIONS[i]) EXCEPT
                         !.img = RoomImg(data),
                         !.mirrorX = FALSE, !.mirrorY = FALSE]]
      horizontal == [i \in 1..4 |-> FlipHorizontal(rotations[i])]
  IN rotations \o horizontal \o horizontal

\* the 12 permutations: 4 rotations, their horizontal and vertical flips
GetPermutations(data) ==
  LET rotations == [i \in 1..4 |->
                      [Rotate(data, DIRECTIONS[i]) EXCEPT
                         !.img = RoomImg(data),
                         !.mirrorX = FALSE, !.mirrorY = FALSE]]
      horizontal == [i \in 1..4 |-> FlipHorizontal(rotations[i])]
      vertical == [i \in 1..4 |-> FlipVertical(rotations[i])]
  IN rotations \o horizontal \o vertical

GetBlankPermutation ==
  LET edges == Rep("closed", 9)
  IN [name |-> "Blank", size |-> 9, walls |-> WallsArray(<<>>),
      edges |-> [n |-> edges, e |-> edges, s |-> edges, w |-> edges],
      rotation |-> 0, img |-> "null", mirrorX |-> FALSE, mirrorY |-> FALSE,
      shared |-> FALSE]

(***************************************************************************)
(* Tileset.findRooms (tileset.mjs lines 53-62).  The getter nOpen is read  *)
(* for every room in turn, so one room whose nOpen throws makes the call   *)
(* throw.  maxOpen is never passed by the generator.                       *)
(***************************************************************************)
FindRoomsThrows(catalog) == \E i \in 1..Len(catalog) : NOpenThrows(catalog[i])

FindRooms(catalog, minOpen) ==
  SelectSeq(catalog, LAMBDA r : ~(NOpen(r) < minOpen))

(***************************************************************************)
(* Generator: the helpers of a placement attempt (room.mjs lines 633-845). *)
(***************************************************************************)
Coords(n) == 0 .. (n - 1)

EmptyLayout(n) == [x \in Coords(n) |-> [y \in Coords(n) |-> <<>>]]

\* the offset of the adjacent position in each direction
AdjacentOffset(d) ==
  CASE d = "n" -> <<0, -1>>
    [] d = "e" -> <<1, 0>>
    [] d = "s" -> <<0, 1>>
    [] d = "w" -> <<-1, 0>>

\* Room.getOpenDirections(room): the directions in which the room has an
\* open edge element, in the order n, e, s, w
GetOpenDirections(room) ==
  SelectSeq(DIRECTIONS, LAMBDA d :
    \E i \in 1..Len(room.edges[d]) : Truthy(room.edges[d][i]))

\* Set.add and Set.delete on a set kept in insertion order
SetAdd(s, v) == IF v \in Range(s) THEN s ELSE Append(s, v)

SetDelete(s, v) == SelectSeq(s, LAMBDA u : u # v)

\* the adjacent position of pos in the direction d
AdjacentPosition(pos, d) ==
  <<pos[1] + AdjacentOffset(d)[1], pos[2] + AdjacentOffset(d)[2]>>

InGrid(p, n) == p[1] \in Coords(n) /\ p[2] \in Coords(n)

\* the inner loop of _getProgress over the open directions of one room
RECURSIVE AddRequired(_, _, _, _, _)
AddRequired(required, completed, pos, dirs, n) ==
  IF dirs = <<>> THEN required
  ELSE AddRequired(
         IF /\ InGrid(AdjacentPosition(pos, Head(dirs)), n)
            /\ AdjacentPosition(pos, Head(dirs)) \notin Range(completed)
           THEN SetAdd(required, AdjacentPosition(pos, Head(dirs)))
         ELSE required,
         completed, pos, Tail(dirs), n)

\* one iteration of the first loop of _getProgress, for the placement pos
ProgressStep(prev, lay, pos, n) ==
  [completed |-> SetAdd(prev.completed, pos),
   required |-> AddRequired(SetDelete(prev.required, pos),
                            SetAdd(prev.completed, pos), pos,
                            GetOpenDirections(lay[pos[1]][pos[2]][1]), n)]

\* the first loop of _getProgress over the first k placements
RECURSIVE ProgressUpTo(_, _, _, _)
ProgressUpTo(lay, pl, n, k) ==
  IF k = 0 THEN [completed |-> <<>>, required |-> <<>>]
  ELSE ProgressStep(ProgressUpTo(lay, pl, n, k - 1), lay, pl[k], n)

\* the positions in the order of the loops over x and y
AllPositions(n) == [i \in 1..(n * n) |-> <<(i - 1) \div n, (i - 1) % n>>]

\* the sets returned by _getProgress, given the result p of its first loop
ProgressSets(p, n) ==
  [completed |-> p.completed,
   required |-> p.required,
   incomplete |-> SelectSeq(AllPositions(n),
                            LAMBDA q : q \notin Range(p.completed))]

GetProgress(lay, pl, n) == ProgressSets(ProgressUpTo(lay, pl, n, Len(pl)), n)

\* Math.floor(Math.random() * length) for the draw r / RandDen
RandomIndex(r, length) == ((r * length) \div RandDen) + 1

\* the random element of a set of positions, with the type pushed onto it
RandomLocation(s, r, type) ==
  <<s[RandomIndex(r, Len(s))][1], s[RandomIndex(r, Len(s))][2], type>>

\* a choice that draws from all the cells not yet placed, required or not
NextFromIncomplete(progress, r) ==
  IF Len(progress.incomplete) > 0
    THEN RandomLocation(progress.incomplete, r, "blank")
  ELSE <<-1, -1, "throw">>

\* cases 2 and 3 of _getNextLocation, given the progress
NextFromProgress(progress, r) ==
  IF Len(progress.required) > 0
    THEN RandomLocation(progress.required, r, "adjacent")
  ELSE IF Len(progress.incomplete) > 0
    THEN RandomLocation(progress.incomplete, r, "blank")
  ELSE <<-1, -1, "throw">>

\* a _getNextLocation that starts in the corner <<0, 0>> instead of the centre
GetNextLocationCorner(lay, pl, n, r) ==
  IF Len(pl) = 0 THEN <<0, 0, "initial">>
  ELSE NextFromProgress(GetProgress(lay, pl, n), r)

\* _getNextLocation: <<x, y, type>>; type "throw" when the Error is thrown
GetNextLocation(lay, pl, n, r) ==
  IF Len(pl) = 0 THEN <<n \div 2, n \div 2, "initial">>
  ELSE NextFromProgress(GetProgress(lay, pl, n), r)

\* a getAdjacent that takes what lies beyond the grid for an empty cell
GetAdjacentNoOuter(lay, n, x, y) ==
  LET beyond == [tag |-> "inner", cell |-> <<>>]
      inner(c) == [tag |-> "inner", cell |-> c]
  IN [n |-> IF y = 0 THEN beyond ELSE inner(lay[x][y - 1]),
      e |-> IF x = n - 1 THEN beyond ELSE inner(lay[x + 1][y]),
      s |-> IF y = n - 1 THEN beyond ELSE inner(lay[x][y + 1]),
      w |-> IF x = 0 THEN beyond ELSE inner(lay[x - 1][y])]

\* getAdjacent: "outer" is false (an outer edge); a cell is <<>> (null) or <<p>>
GetAdjacent(lay, n, x, y) ==
  LET outer == [tag |-> "outer", cell |-> <<>>]
      inner(c) == [tag |-> "inner", cell |-> c]
  IN [n |-> IF y = 0 THEN outer ELSE inner(lay[x][y - 1]),
      e |-> IF x = n - 1 THEN outer ELSE inner(lay[x + 1][y]),
      s |-> IF y = n - 1 THEN outer ELSE inner(lay[x][y + 1]),
      w |-> IF x = 0 THEN outer ELSE inner(lay[x - 1][y])]

ReverseDirection(d) ==
  CASE d = "n" -> "s"
    [] d = "e" -> "w"
    [] d = "s" -> "n"
    [] d = "w" -> "e"

\* a _getAdjacentEdges that leaves the sides of an outer edge open to anything
GetAdjacentEdgesUnknownOuter(direction, adjacent) ==
  IF adjacent.tag = "outer" \/ adjacent.cell = <<>>
    THEN Rep("unknown", roomSize)
  ELSE adjacent.cell[1].edges[ReverseDirection(direction)]

\* a _getAdjacentEdges that reads the neighbour's edge of the same name
GetAdjacentEdgesSameSide(direction, adjacent) ==
  IF adjacent.tag = "outer" THEN Rep("closed", roomSize)
  ELSE IF adjacent.cell = <<>> THEN Rep("unknown", roomSize)
  ELSE adjacent.cell[1].edges[direction]

GetAdjacentEdges(direction, adjacent) ==
  IF adjacent.tag = "outer" THEN Rep("closed", roomSize)
  ELSE IF adjacent.cell = <<>> THEN Rep("unknown", roomSize)
  ELSE adjacent.cell[1].edges[ReverseDirection(direction)]

AdjacentConstraintsOf(adjacent) ==
  [d \in Range(DIRECTIONS) |-> GetAdjacentEdges(d, adjacent[d])]

GetAdjacentConstraints(lay, n, x, y) ==
  AdjacentConstraintsOf(GetAdjacent(lay, n, x, y))

\* a _testEdge that wants an opening of the same kind as the constraint's
TestEdgeSameKind(edge, constraint) ==
  \A i \in 1..Len(constraint) :
    LET v == constraint[i]
    IN IF v = "unknown" THEN TRUE
       ELSE i <= Len(edge) /\ edge[i] = v

\* edge[i] is undefined beyond the length of edge: not false, not truthy
TestEdge(edge, constraint) ==
  \A i \in 1..Len(constraint) :
    LET v == constraint[i]
    IN IF v = "unknown" THEN TRUE
       ELSE IF v = "closed" THEN i <= Len(edge) /\ edge[i] = "closed"
       ELSE i <= Len(edge) /\ Truthy(edge[i])

TestPermutation(permutation, constraints) ==
  \A k \in Range(DIRECTIONS) : TestEdge(permutation.edges[k], constraints[k])

RECURSIVE AllPermutations(_)
AllPermutations(rs) ==
  IF rs = <<>> THEN <<>>
  ELSE GetPermutations(Head(rs)) \o AllPermutations(Tail(rs))

\* the blank tile is allowed for when no permutation matched
MatchesOrBlank(matches, constraints) ==
  IF Len(matches) = 0 /\ TestPermutation(GetBlankPermutation, constraints)
    THEN <<GetBlankPermutation>>
  ELSE matches

GetMatchingPermutations(rs, constraints) ==
  MatchesOrBlank(SelectSeq(AllPermutations(rs),
                           LAMBDA p : TestPermutation(p, constraints)),
                 constraints)

\* a minOpen that counts the sides that are not all closed
MinOpenSides(pl, constraints) ==
  IF Len(pl) = 0 THEN 9
  ELSE Cardinality({d \in Range(DIRECTIONS) :
                      \E i \in 1..Len(constraints[d]) :
                        constraints[d][i] # "closed"})

\* a minOpen without the bound of 9 for the first placement
MinOpenNoFloor(pl, constraints) ==
  CountTruthy(FlatEdges(constraints))

\* the minOpen of _try
MinOpen(pl, constraints) ==
  IF Len(pl) = 0 THEN 9 ELSE CountTruthy(FlatEdges(constraints))

\* _try up to the test of permutations.length: ok is FALSE when it throws
TryFailed == [ok |-> FALSE, x |-> -1, y |-> -1, permutations |-> <<>>]

TryResult(loc, permutations) ==
  IF Len(permutations) = 0 THEN TryFailed
  ELSE [ok |-> TRUE, x |-> loc[1], y |-> loc[2],
        permutations |-> permutations]

\* candidate rooms that are the whole catalog for a location of type "blank"
CandidatesUnfiltered(catalog, pl, loc, constraints) ==
  IF loc[3] # "blank" THEN FindRooms(catalog, MinOpen(pl, constraints))
  ELSE catalog

\* the candidate rooms: none for a location of type "blank"
Candidates(catalog, pl, loc, constraints) ==
  IF loc[3] # "blank" THEN FindRooms(catalog, MinOpen(pl, constraints))
  ELSE <<>>

TryWith(catalog, pl, loc, constraints) ==
  IF loc[3] # "blank" /\ FindRoomsThrows(catalog) THEN TryFailed
  ELSE TryResult(loc, GetMatchingPermutations(
                        Candidates(catalog, pl, loc, constraints),
                        constraints))

TryAt(catalog, lay, pl, n, loc) ==
  IF loc[3] = "throw" THEN TryFailed
  ELSE TryWith(catalog, pl, loc,
               GetAdjacentConstraints(lay, n, loc[1], loc[2]))

\* for the location draw rl
TryPermutations(catalog, lay, pl, n, rl) ==
  TryAt(catalog, lay, pl, n, GetNextLocation(lay, pl, n, rl))

\* the permutation chosen at random, for the draw rp
Chosen(permutations, rp) == permutations[RandomIndex(rp, Len(permutations))]

(***************************************************************************)
(* Generator: _backtrack and _export.                                      *)
(***************************************************************************)
\* _backtrack: throws on an empty history, else pops the last placement
\* a _backtrack that removes the oldest placement instead of the latest
BacktrackOldest(lay, pl) ==
  IF Len(pl) = 0
    THEN [threw |-> TRUE, layout |-> lay, placements |-> pl]
  ELSE [threw |-> FALSE,
        layout |-> [lay EXCEPT ![pl[1][1]][pl[1][2]] = <<>>],
        placements |-> Tail(pl)]

\* a _backtrack that pops the history and leaves the cell as it is
BacktrackKeepsCell(lay, pl) ==
  IF Len(pl) = 0
    THEN [threw |-> TRUE, layout |-> lay, placements |-> pl]
  ELSE [threw |-> FALSE, layout |-> lay,
        placements |-> SubSeq(pl, 1, Len(pl) - 1)]

\* a _backtrack that returns quietly when the history is empty
BacktrackQuiet(lay, pl) ==
  IF Len(pl) = 0
    THEN [threw |-> FALSE, layout |-> lay, placements |-> pl]
  ELSE LET last == pl[Len(pl)]
       IN [threw |-> FALSE,
           layout |-> [lay EXCEPT ![last[1]][last[2]] = <<>>],
           placements |-> SubSeq(pl, 1, Len(pl) - 1)]

BacktrackOf(lay, pl) ==
  IF Len(pl) = 0
    THEN [threw |-> TRUE, layout |-> lay, placements |-> pl]
  ELSE LET last == pl[Len(pl)]
       IN [threw |-> FALSE,
           layout |-> [lay EXCEPT ![last[1]][last[2]] = <<>>],
           placements |-> SubSeq(pl, 1, Len(pl) - 1)]

GetCanvasSize(n) == n * roomSize * gridSize

TranslateWall(c, dx, dy) ==
  IF c = <<>> THEN c ELSE <<c[1] + dx, c[2] + dy, c[3] + dx, c[4] + dy>>

TranslateWalls(ws, dx, dy) ==
  [i \in 1..Len(ws) |-> TranslateWall(ws[i], dx, dy)]

\* a tile that takes its position from the other axis
TileDataTransposed(d, x, y) ==
  [x |-> y * roomSize * gridSize, y |-> x * roomSize * gridSize,
   width |-> roomSize * gridSize, height |-> roomSize * gridSize,
   rotation |-> d.rotation, mirrorX |-> d.mirrorX, mirrorY |-> d.mirrorY,
   img |-> d.img, locked |-> TRUE]

\* const tileData = {...}: the tile of the permutation d of the cell (x, y)
TileData(d, x, y) ==
  [x |-> x * roomSize * gridSize, y |-> y * roomSize * gridSize,
   width |-> roomSize * gridSize, height |-> roomSize * gridSize,
   rotation |-> d.rotation, mirrorX |-> d.mirrorX, mirrorY |-> d.mirrorY,
   img |-> d.img, locked |-> TRUE]

\* the body of the loops of _export for the cell at pos: the tile pushed, the
\* walls concatenated, and the cell as the loop leaves it (the walls of the
\* selected bucket are translated in place, in the permutation of the layout)
ExportCell(lay, pos) ==
  LET x == pos[1]
      y == pos[2]
      cell == lay[x][y]
  IN IF cell = <<>> \/ cell[1].img \in {"null", "undefined"}
       THEN [cell |-> cell, tiles |-> <<>>, walls |-> <<>>, written |-> <<>>]
     ELSE
       LET d == cell[1]
           s == roomSize * gridSize
           tileData == TileData(d, x, y)
           bucket == CASE d.rotation = 0 -> "n"
                       [] d.rotation = 90 -> "e"
                       [] d.rotation = 180 -> "s"
                       [] d.rotation = 270 -> "w"
           moved == TranslateWalls(d.walls[bucket], x * s, y * s)
           d2 == IF d.walls.kind = "object"
                   THEN [d EXCEPT !.walls[bucket] = moved] ELSE d
           added == IF d.walls.kind = "object"
                      THEN IF d.rotation = 0 THEN moved \o moved ELSE moved
                    ELSE IF d.rotation = 0 THEN << <<>> >> ELSE <<>>
           written == IF d.walls.kind = "object" /\ d.shared /\ d.rotation = 0
                        THEN <<[name |-> d.name, dx |-> x * s, dy |-> y * s]>>
                      ELSE <<>>
       IN [cell |-> <<d2>>, tiles |-> <<tileData>>, walls |-> added,
           written |-> written]

\* the two loops of _export: every cell in the order of the loops, column by
\* column; no cell's step reads what another cell's step wrote
ExportCells(lay, n) ==
  [i \in 1..(n * n) |-> ExportCell(lay, AllPositions(n)[i])]

\* config.tiles and config.walls: what the cells lo..hi pushed, in order
RECURSIVE Pushed(_, _, _, _)
Pushed(done, field, lo, hi) ==
  IF lo > hi THEN <<>>
  ELSE IF lo = hi THEN done[lo][field]
  ELSE Pushed(done, field, lo, (lo + hi) \div 2)
         \o Pushed(done, field, ((lo + hi) \div 2) + 1, hi)

ConfigOf(done, n) ==
  [layout |-> [x \in Coords(n) |-> [y \in Coords(n) |-> done[x * n + y + 1].cell]],
   written |-> Pushed(done, "written", 1, n * n),
   config |-> [width |-> GetCanvasSize(n), height |-> GetCanvasSize(n),
               size |-> gridSize, padding |-> 0,
               backgroundColor |-> "#000000",
               tiles |-> Pushed(done, "tiles", 1, n * n),
               walls |-> Pushed(done, "walls", 1, n * n)]]

\* _export: the configuration returned and the layout it leaves behind
ExportOf(lay, n) == ConfigOf(ExportCells(lay, n), n)

(***************************************************************************)
(* The catalogs the runs are checked with.                                 *)
(***************************************************************************)
Door == <<"closed", "closed", "closed", "hallway", "hallway", "hallway",
          "closed", "closed", "closed">>

Wall9 == Rep("closed", 9)

Open9 == Rep("hallway", 9)

\* every edge element open
Open4 == [name |-> "open4", size |-> 9,
          walls |-> <<>>,
          edges |-> [n |-> Open9, e |-> Open9, s |-> Open9, w |-> Open9]]

\* open to the north and to the south
Pipe == [name |-> "pipe", size |-> 9,
         walls |-> << <<0, 0, 0, 1800>>, <<1800, 0, 1800, 1800>> >>,
         edges |-> [n |-> Open9, e |-> Wall9, s |-> Open9, w |-> Wall9]]

\* open to the north only
Cap == [name |-> "cap", size |-> 9,
        walls |-> << <<0, 0, 0, 1800>>, <<0, 1800, 1800, 1800>>,
                     <<1800, 1800, 1800, 0>> >>,
        edges |-> [n |-> Open9, e |-> Wall9, s |-> Wall9, w |-> Wall9]]

\* one door of three elements, to the north
End == [name |-> "end", size |-> 9,
        walls |-> << <<0, 1800, 1800, 1800>> >>,
        edges |-> [n |-> Door, e |-> Wall9, s |-> Wall9, w |-> Wall9]]

\* a room with an unknown (null) edge element
Vague == [name |-> "vague", size |-> 9,
          walls |-> <<>>,
          edges |-> [n |-> Open9, e |-> Wall9, s |-> Wall9,
                     w |-> [Wall9 EXCEPT ![1] = "unknown"]]]

\* open to the north only, by openings that carry no type
Stub == [name |-> "stub", size |-> 9,
         walls |-> <<>>,
         edges |-> [n |-> Rep("notype", 9), e |-> Wall9, s |-> Wall9,
                    w |-> Wall9]]

\* the calls checked: a loaded catalog and the size asked of generate()
Scenarios ==
  { <<<<>>, "small">>, <<<<>>, "medium">>, <<<<>>, "large">>,
    <<<<Open4>>, "small">>,
    <<<<End, Pipe, Cap>>, "small">>,
    <<<<Pipe>>, "medium">>,
    <<<<Cap, Vague>>, "small">>,
    <<<<Pipe, Stub>>, "small">> }

Catalogs == {sc[1] : sc \in Scenarios}

\* no function has been called on its own
NoProbe == [op |-> "none"]

(***************************************************************************)
(* The state machine.  Init is the state after the constructor, which      *)
(* calls _configure() with the default size, on a loaded tileset.          *)
(***************************************************************************)
Init ==
  /\ rooms \in Catalogs
  /\ size = "small"
  /\ nRooms = PresetRooms("small")
  /\ layout = EmptyLayout(PresetRooms("small"))
  /\ placements = <<>>
  /\ attempts = 0
  /\ isComplete = FALSE
  /\ pc = "idle"
  /\ result = <<>>
  /\ error = ""
  /\ logged = FALSE
  /\ probe = NoProbe

\* a _configure that keeps the attempt counter of the previous run
ConfigureKeepsAttempts(sz) ==
  /\ pc \in {"idle", "done", "thrown"}
  /\ <<rooms, sz>> \in Scenarios
  /\ size' = sz
  /\ nRooms' = PresetRooms(sz)
  /\ placements' = <<>>
  /\ layout' = EmptyLayout(PresetRooms(sz))
  /\ isComplete' = FALSE
  /\ pc' = "loop"
  /\ result' = <<>>
  /\ error' = ""
  /\ logged' = FALSE
  /\ UNCHANGED <<probe, rooms, attempts>>

\* generate(options): _configure(options), then the loop of _generate begins
Configure(sz) ==
  /\ pc \in {"idle", "done", "thrown"}
  /\ <<rooms, sz>> \in Scenarios
  /\ size' = sz
  /\ nRooms' = PresetRooms(sz)
  /\ placements' = <<>>
  /\ layout' = EmptyLayout(PresetRooms(sz))
  /\ attempts' = 0
  /\ isComplete' = FALSE
  /\ pc' = "loop"
  /\ result' = <<>>
  /\ error' = ""
  /\ logged' = FALSE
  /\ UNCHANGED <<probe, rooms>>

\* the end of _try: the chosen permutation is added to the layout
Commit(t, rp) ==
  /\ placements' = Append(placements, <<t.x, t.y>>)
  /\ layout' = [layout EXCEPT ![t.x][t.y] = <<Chosen(t.permutations, rp)>>]

\* a choice among the matching permutations that no draw decides
CommitAny(t) ==
  /\ t.ok
  /\ placements' = Append(placements, <<t.x, t.y>>)
  /\ \E k \in 1..Len(t.permutations) :
       layout' = [layout EXCEPT ![t.x][t.y] = <<t.permutations[k]>>]

CommitSome(t) == t.ok /\ \E rp \in Draws : Commit(t, rp)

\* one iteration of the loop of _generate in which _try returns
TryCommit ==
  /\ pc = "loop"
  /\ ~isComplete
  /\ attempts < MAX_ALLOWED_ATTEMPTS
  /\ \E rl \in Draws :
       CommitSome(TryPermutations(rooms, layout, placements, nRooms, rl))
  /\ isComplete' = (Len(placements') = roomSize)
  /\ attempts' = attempts + 1
  /\ UNCHANGED <<probe, rooms, size, nRooms, pc, result, error, logged>>

\* a failing iteration that leaves the attempt counter as it is
TryFailNoCount ==
  /\ pc = "loop"
  /\ ~isComplete
  /\ attempts < MAX_ALLOWED_ATTEMPTS
  /\ \E rl \in Draws :
       ~TryPermutations(rooms, layout, placements, nRooms, rl).ok
  /\ pc' = "catch"
  /\ UNCHANGED <<probe, rooms, size, nRooms, layout, placements, attempts,
                 isComplete, result, error, logged>>

\* one iteration in which _try throws: control enters the catch block
TryFail ==
  /\ pc = "loop"
  /\ ~isComplete
  /\ attempts < MAX_ALLOWED_ATTEMPTS
  /\ \E rl \in Draws :
       ~TryPermutations(rooms, layout, placements, nRooms, rl).ok
  /\ attempts' = attempts + 1
  /\ pc' = "catch"
  /\ UNCHANGED <<probe, rooms, size, nRooms, layout, placements, isComplete,
                 result, error, logged>>

Backtracked(b) ==
  /\ layout' = b.layout
  /\ placements' = b.placements
  /\ pc' = IF b.threw THEN "thrown" ELSE "loop"
  /\ error' = IF b.threw THEN "We failed completely" ELSE error

\* the catch block: _backtrack, whose error leaves _generate and generate
Backtrack ==
  /\ pc = "catch"
  /\ Backtracked(BacktrackOf(layout, placements))
  /\ UNCHANGED <<probe, rooms, size, nRooms, attempts, isComplete, result,
                 logged>>

\* the loop ends; an incomplete layout is reported with console.error only
LoopExit ==
  /\ pc = "loop"
  /\ isComplete \/ ~(attempts < MAX_ALLOWED_ATTEMPTS)
  /\ logged' = ~isComplete
  /\ pc' = "export"
  /\ UNCHANGED <<probe, rooms, size, nRooms, layout, placements, attempts,
                 isComplete, result, error>>

\* the catalog after the translations that _export made in arrays shared
\* with the data of a room
RECURSIVE WrittenRooms(_, _)
WrittenRooms(catalog, written) ==
  IF written = <<>> THEN catalog
  ELSE WrittenRooms(
         [i \in 1..Len(catalog) |->
            IF catalog[i].name = written[1].name
              THEN [catalog[i] EXCEPT
                      !.walls = TranslateWalls(catalog[i].walls,
                                               written[1].dx, written[1].dy)]
            ELSE catalog[i]],
         Tail(written))

Exported(e) ==
  /\ layout' = e.layout
  /\ result' = <<e.config>>
  /\ rooms' = WrittenRooms(rooms, e.written)

\* return this._export()
Export ==
  /\ pc = "export"
  /\ Exported(ExportOf(layout, nRooms))
  /\ pc' = "done"
  /\ UNCHANGED <<probe, size, nRooms, placements, attempts, isComplete,
                 error, logged>>

Next ==
  \/ \E sz \in Sizes : Configure(sz)
  \/ TryCommit
  \/ TryFail
  \/ Backtrack
  \/ LoopExit
  \/ Export

Spec == Init /\ [][Next]_vars

(***************************************************************************)
(* Vocabulary of the properties.                                           *)
(***************************************************************************)
Cells == {<<x, y>> : x \in Coords(nRooms), y \in Coords(nRooms)}

CellAt(p) == layout[p[1]][p[2]]

Filled == {p \in Cells : CellAt(p) # <<>>}

\* a real tile variant, as opposed to Empty and to Blank
IsRoom(p) == CellAt(p) # <<>> /\ CellAt(p)[1].name # "Blank"

AllClosed(edge) == \A i \in 1..Len(edge) : edge[i] = "closed"

\* the side of the neighbour that faces back
Facing(d) ==
  CASE d = "n" -> "s"
    [] d = "s" -> "n"
    [] d = "e" -> "w"
    [] d = "w" -> "e"

\* the match of two facing sequences, in both directions
MutualMatch(a, b) == TestEdge(a, b) /\ TestEdge(b, a)

(***************************************************************************)
(* C1: for every pair of orthogonally adjacent non-Empty cells A and B,    *)
(* the sequence of A on the side facing B satisfies _testEdge against the  *)
(* facing sequence of B as constraint, and the other way round.            *)
(***************************************************************************)
C1_AdjacentEdgesMatch ==
  \A p \in Filled : \A d \in Range(DIRECTIONS) :
    LET q == AdjacentPosition(p, d)
    IN (InGrid(q, nRooms) /\ CellAt(q) # <<>>) =>
         MutualMatch(CellAt(p)[1].edges[d], CellAt(q)[1].edges[Facing(d)])

\* two adjacent rooms joined by an open side
C1_Witness ==
  \E p \in Filled : \E d \in Range(DIRECTIONS) :
    /\ InGrid(AdjacentPosition(p, d), nRooms)
    /\ IsRoom(p)
    /\ IsRoom(AdjacentPosition(p, d))
    /\ \E i \in 1..roomSize : Truthy(CellAt(p)[1].edges[d][i])

(***************************************************************************)
(* C2: every non-Empty cell on the outer perimeter of the grid has every   *)
(* edge element closed on each side that faces outside the grid.           *)
(***************************************************************************)
C2_PerimeterClosed ==
  \A p \in Filled :
    LET e == CellAt(p)[1].edges
    IN /\ (p[2] = 0 => AllClosed(e.n) /\ Len(e.n) = roomSize)
       /\ (p[1] = nRooms - 1 => AllClosed(e.e) /\ Len(e.e) = roomSize)
       /\ (p[2] = nRooms - 1 => AllClosed(e.s) /\ Len(e.s) = roomSize)
       /\ (p[1] = 0 => AllClosed(e.w) /\ Len(e.w) = roomSize)

\* a room, not a Blank, placed on the perimeter
C2_Witness ==
  \E p \in Filled :
    /\ IsRoom(p)
    /\ p[1] \in {0, nRooms - 1} \/ p[2] \in {0, nRooms - 1}

(***************************************************************************)
(* C3: the placement history holds exactly the coordinates of the          *)
(* non-Empty cells, each once; so no commit goes to a non-Empty cell.      *)
(***************************************************************************)
C3_HistoryIsFilledCells ==
  /\ Len(placements) = Cardinality(Filled)
  /\ Range(placements) = Filled

\* a run that has backtracked and still holds placements
C3_Witness ==
  /\ pc = "loop"
  /\ Len(placements) >= 2
  /\ attempts > Len(placements)

(***************************************************************************)
(* C4: whenever the loop of _generate ends with isComplete true, every     *)
(* cell of the grid is non-Empty and no required cell remains.             *)
(***************************************************************************)
C4_CompleteMeansFull ==
  (pc = "export" /\ isComplete) =>
    /\ Filled = Cells
    /\ GetProgress(layout, placements, nRooms).required = <<>>

(***************************************************************************)
(* C5: _generate terminates: every call of _try, committing or failing,    *)
(* adds one to the attempt counter, nothing else changes it within a run,  *)
(* the counter never exceeds MAX_ALLOWED_ATTEMPTS, and the loop is left.   *)
(***************************************************************************)
C5_GenerateTerminates ==
  /\ [](attempts <= MAX_ALLOWED_ATTEMPTS)
  /\ [][(pc = "loop" /\ pc' \in {"loop", "catch"}) =>
          attempts' = attempts + 1]_vars
  /\ [][(pc = "catch" \/ pc' \in {"export", "done"}) =>
          attempts' = attempts]_vars
  /\ [](pc = "loop" => <>(pc \in {"export", "thrown"}))

\* the budget is used up without a complete layout
C5_Witness ==
  /\ pc = "export"
  /\ attempts = MAX_ALLOWED_ATTEMPTS
  /\ ~isComplete

(***************************************************************************)
(* C6: when the attempt counter reaches the maximum before the layout is   *)
(* complete, what generate returns is a failure, not the ordinary export   *)
(* of the layout, and nothing is thrown.                                   *)
(***************************************************************************)
C6_FailureIsReported ==
  [][(pc = "export" /\ ~isComplete) =>
       /\ error' = ""
       /\ result' # <<ExportOf(layout, nRooms).config>>]_vars

(***************************************************************************)
(* C7: a placement attempt that fails on an empty history makes _backtrack *)
(* raise an error that leaves generate: the run is over, no attempt        *)
(* follows, nothing is returned and every cell of the layout is Empty.     *)
(***************************************************************************)
C7_EmptyHistoryIsFatal ==
  /\ [][(pc = "catch" /\ placements = <<>>) =>
          /\ pc' = "thrown"
          /\ error' = "We failed completely"
          /\ attempts' = attempts]_vars
  /\ [](pc = "thrown" =>
          /\ Filled = {}
          /\ placements = <<>>
          /\ result = <<>>
          /\ error # "")
  /\ [][pc = "thrown" => (pc' = "loop" /\ attempts' = 0)]_vars

C7_Witness == pc = "thrown"

(***************************************************************************)
(* C8: whenever the history is empty, the next cell chosen is the center   *)
(* cell of the grid, the one cell equally far from both ends of each axis. *)
(***************************************************************************)
Center == CHOOSE k \in Coords(nRooms) : k = (nRooms - 1) - k

C8_EmptyHistoryPicksCenter ==
  /\ Cardinality({k \in Coords(nRooms) : k = (nRooms - 1) - k}) = 1
  /\ (pc = "loop" /\ placements = <<>>) =>
       \A r \in Draws :
         GetNextLocation(layout, placements, nRooms, r)
           = <<Center, Center, "initial">>
  /\ Len(placements) >= 1 => placements[1] = <<Center, Center>>

\* the history is empty again after backtracking
C8_Witness ==
  /\ pc = "loop"
  /\ placements = <<>>
  /\ attempts > 0

(***************************************************************************)
(* C9: the first placement of a run.                                       *)
(* As claimed: always a variant of a catalog tile with at least 9 open     *)
(* segments, never a Blank.                                                *)
(* As the code has it: a variant of a catalog tile with at least 9 open    *)
(* segments when the catalog holds such a tile, and the Blank otherwise.   *)
(***************************************************************************)
FirstPlaced == CellAt(placements[1])[1]

OpenEnough(r) == NOpen(r) >= 9

IsVariantOf(p, r) == p \in Range(GetPermutations(r))

C9_FirstIsOpenRoom ==
  (Len(placements) >= 1 /\ pc # "done") =>
    \E i \in 1..Len(rooms) :
      OpenEnough(rooms[i]) /\ IsVariantOf(FirstPlaced, rooms[i])

C9_FirstIsOpenRoomOrBlank ==
  (Len(placements) >= 1 /\ pc # "done") =>
    IF \E i \in 1..Len(rooms) : OpenEnough(rooms[i])
      THEN \E i \in 1..Len(rooms) :
             OpenEnough(rooms[i]) /\ IsVariantOf(FirstPlaced, rooms[i])
    ELSE FirstPlaced = GetBlankPermutation

\* a first placement from a catalog that also holds a room with fewer than
\* 9 open segments
C9_Witness ==
  /\ Len(placements) >= 1
  /\ pc # "done"
  /\ FirstPlaced.name # "Blank"
  /\ \E i \in 1..Len(rooms) : ~OpenEnough(rooms[i])

(***************************************************************************)
(* C10: every committed variant satisfies _testPermutation against the     *)
(* constraints of its cell at commit time, and a placement attempt fails   *)
(* exactly when neither a variant of a candidate tile nor the Blank        *)
(* satisfies the constraints of the cell it was made for.                  *)
(***************************************************************************)
\* the cell of the attempt made with the location draw r
AttemptCell(r) == GetNextLocation(layout, placements, nRooms, r)

AttemptConstraints(r) ==
  GetAdjacentConstraints(layout, nRooms, AttemptCell(r)[1], AttemptCell(r)[2])

\* whether some variant of a catalog tile with enough open segments, or the
\* Blank, satisfies the constraints of the cell
SomeVariantSatisfies(r) ==
  \/ TestPermutation(GetBlankPermutation, AttemptConstraints(r))
  \/ /\ AttemptCell(r)[3] # "blank"
     /\ \E i \in 1..Len(rooms) :
          /\ NOpen(rooms[i]) >= MinOpen(placements, AttemptConstraints(r))
          /\ \E p \in Range(GetPermutations(rooms[i])) :
               TestPermutation(p, AttemptConstraints(r))

C10_CommitIffSatisfiable ==
  /\ [][(pc = "loop" /\ pc' = "loop" /\ attempts' = attempts + 1) =>
          LET pos == placements'[Len(placements')]
          IN TestPermutation(layout'[pos[1]][pos[2]][1],
               GetAdjacentConstraints(layout, nRooms, pos[1], pos[2]))]_vars
  /\ [][(pc = "loop" /\ pc' = "catch") =>
          \E r \in Draws : ~SomeVariantSatisfies(r)]_vars
  /\ [][(pc = "loop" /\ pc' = "loop" /\ attempts' = attempts + 1) =>
          \E r \in Draws : SomeVariantSatisfies(r)]_vars

(***************************************************************************)
(* Single calls.  A function is called on its own, on arguments drawn from *)
(* the sets below; probe records the arguments and the result.  The        *)
(* generator stays idle meanwhile.                                         *)
(***************************************************************************)
genVars == <<rooms, size, nRooms, layout, placements, attempts, isComplete,
             pc, result, error, logged>>

\* the longest edge and constraint given to _testEdge
MaxLen == 2

\* false, null, {type: "hallway"}, {type: "door"}, {}
Elements == {"closed", "unknown", "hallway", "door", "notype"}

EdgeSeqs == UNION {[1..k -> Elements] : k \in 0..MaxLen}

\* an edge that reads differently from its two ends
Bent == <<"hallway", "hallway", "door", "closed", "closed", "closed",
          "closed", "closed", "notype">>

ProbeEdges == {Wall9, Door, Bent}

ProbeWalls == {<<>>, << <<0, 0, 600, 0>>, <<1800, 200, 1800, 1800>> >>}

ProbeRooms ==
  {[name |-> "probe", size |-> 9, walls |-> ws,
    edges |-> [n |-> a, e |-> b, s |-> c, w |-> d]] :
     a \in ProbeEdges, b \in ProbeEdges, c \in ProbeEdges, d \in ProbeEdges,
     ws \in ProbeWalls}

\* the rooms without a wall
BareRooms == {r \in ProbeRooms : r.walls = <<>>}

\* _getAdjacentConstraints for every cell of a small layout that holds one
\* permutation
ProbeConstraints ==
  /\ probe = NoProbe
  /\ \E r \in BareRooms : \E pm \in Range(GetPermutations(r)) :
     \E x \in Coords(3), y \in Coords(3) :
       LET lay == [EmptyLayout(3) EXCEPT ![x][y] = <<pm>>]
       IN probe' = [op |-> "constraints", layout |-> lay,
                    out |-> [p \in Coords(3) \X Coords(3) |->
                               GetAdjacentConstraints(lay, 3, p[1], p[2])]]
  /\ UNCHANGED genVars

\* _testEdge(edge, constraint)
ProbeTestEdge ==
  /\ probe = NoProbe
  /\ \E edge \in EdgeSeqs, constraint \in EdgeSeqs :
       probe' = [op |-> "testEdge", edge |-> edge, constraint |-> constraint,
                 out |-> TestEdge(edge, constraint)]
  /\ UNCHANGED genVars

Unknown9 == Rep("unknown", 9)

\* _testPermutation(permutation, constraints)
ProbeTestPermutation ==
  /\ probe = NoProbe
  /\ \E r \in BareRooms, a \in {Wall9, Door, Unknown9}, b \in {Wall9, Unknown9},
        c \in {Wall9, Bent, Unknown9}, d \in {Open9, Unknown9} :
       LET constraints == [n |-> a, e |-> b, s |-> c, w |-> d]
       IN probe' = [op |-> "testPermutation",
                    permutation |-> GetPermutations(r)[1],
                    constraints |-> constraints,
                    out |-> TestPermutation(GetPermutations(r)[1],
                                            constraints)]
  /\ UNCHANGED genVars

\* rooms smaller than those of the generator: each side is as long as the
\* size of the room (typedef EdgeConstraints)
ShortEdges == {<<"closed", "door", "closed">>, <<"hallway", "hallway", "closed">>}

ShortRooms ==
  {[name |-> "short", size |-> Len(a), walls |-> ws,
    edges |-> [n |-> a, e |-> b, s |-> c, w |-> d]] :
     a \in ShortEdges, b \in ShortEdges, c \in ShortEdges, d \in ShortEdges,
     ws \in ProbeWalls}

\* room.getPermutations() of one room
ProbePermutations ==
  /\ probe = NoProbe
  /\ \E r \in ProbeRooms \cup ShortRooms :
       probe' = [op |-> "permutations", room |-> r, out |-> GetPermutations(r)]
  /\ UNCHANGED genVars

\* the edges and the walls of a room, about to be turned by 90 degrees
ProbeTurn ==
  /\ probe = NoProbe
  /\ \E r \in ProbeRooms :
       probe' = [op |-> "turn", room |-> r, edges |-> r.edges,
                 walls |-> r.walls, turns |-> 0]
  /\ UNCHANGED genVars

\* one more turn: _rotateEdges by one direction, and _rotatePointClockwise
\* on both endpoints of every wall
TurnAgain ==
  /\ probe.op = "turn"
  /\ probe.turns < 4
  /\ probe' = [probe EXCEPT
                 !.edges = RotateEdges("e", probe.edges),
                 !.walls = [i \in 1..Len(probe.walls) |->
                              RotateWallTimes(probe.walls[i], 1)],
                 !.turns = probe.turns + 1]
  /\ UNCHANGED genVars

\* room data, as getPermutations hands it to flipHorizontal or later
ProbeFlip ==
  /\ probe = NoProbe
  /\ \E r \in BareRooms : \E pm \in Range(GetPermutations(r)) :
       probe' = [op |-> "flipHorizontal", data |-> pm, out |-> pm, flips |-> 0]
  /\ UNCHANGED genVars

\* flipHorizontal of the data the previous call returned
FlipAgain ==
  /\ probe.op = "flipHorizontal"
  /\ probe.flips < 2
  /\ probe' = [probe EXCEPT !.out = FlipHorizontal(probe.out),
                            !.flips = probe.flips + 1]
  /\ UNCHANGED genVars

\* room.rotate(direction) of one room
ProbeRotate ==
  /\ probe = NoProbe
  /\ \E r \in ProbeRooms : \E direction \in Range(DIRECTIONS) :
       probe' = [op |-> "rotate", room |-> r, direction |-> direction,
                 out |-> Rotate(r, direction)]
  /\ UNCHANGED genVars

\* flipVertical of room data, as getPermutations calls it
ProbeFlipVertical ==
  /\ probe = NoProbe
  /\ \E r \in BareRooms : \E pm \in Range(GetPermutations(r)) :
       probe' = [op |-> "flipVertical", data |-> pm, out |-> FlipVertical(pm)]
  /\ UNCHANGED genVars

\* findRooms with both bounds; a bound is <<>> when absent and <<v>> when
\* given (Number.isNumeric)
FindRoomsBetween(catalog, minOpen, maxOpen) ==
  SelectSeq(catalog,
            LAMBDA r : /\ ~(Len(minOpen) = 1 /\ NOpen(r) < minOpen[1])
                       /\ ~(Len(maxOpen) = 1 /\ NOpen(r) > maxOpen[1]))

\* rooms whose segments are Open, Closed or Unknown
FindEdges == {Wall9, Door, Unknown9}

FindCatalogRooms ==
  {[name |-> "probe", size |-> 9, walls |-> <<>>,
    edges |-> [n |-> a, e |-> b, s |-> Wall9, w |-> Door]] :
     a \in FindEdges, b \in FindEdges}

MaxCatalog == 2

FindCatalogs == UNION {[1..k -> FindCatalogRooms] : k \in 0..MaxCatalog}

MinBounds == {<<>>, <<0>>, <<3>>, <<6>>, <<7>>}

MaxBounds == {<<>>, <<3>>, <<6>>}

\* tileset.findRooms({minOpen, maxOpen}) on one catalog
ProbeFindRooms ==
  /\ probe = NoProbe
  /\ \E catalog \in FindCatalogs, minOpen \in MinBounds, maxOpen \in MaxBounds :
       probe' = [op |-> "findRooms", catalog |-> catalog,
                 minOpen |-> minOpen, maxOpen |-> maxOpen,
                 threw |-> FindRoomsThrows(catalog),
                 out |-> IF FindRoomsThrows(catalog) THEN <<>>
                         ELSE FindRoomsBetween(catalog, minOpen, maxOpen)]
  /\ UNCHANGED genVars

\* the sides of the constraints of a required cell: a wall or the outside,
\* a door, an open side, an Empty neighbour
BoundSides == {Wall9, Door, Open9, Unknown9}

BoundConstraints ==
  {[n |-> a, e |-> b, s |-> c, w |-> Wall9] :
     a \in BoundSides, b \in BoundSides, c \in BoundSides}

\* the minOpen of _try for two cells, the history holding the center
ProbeMinOpen ==
  /\ probe = NoProbe
  /\ \E c1 \in BoundConstraints, c2 \in BoundConstraints :
       probe' = [op |-> "minOpen", first |-> c1, second |-> c2,
                 out1 |-> MinOpen(<< <<1, 1>> >>, c1),
                 out2 |-> MinOpen(<< <<1, 1>> >>, c2)]
  /\ UNCHANGED genVars

\* ---- the nearest-neighbour variant of the generator ----
\* Array.from(nRooms): a number is neither iterable nor array-like, so the
\* array made from it is empty whatever the number
ArrayFrom(number) == <<>>

\* the four neighbours of Case 2, in the order they are tried
Adjacent == << <<-1, 0>>, <<1, 0>>, <<0, -1>>, <<0, 1>> >>

\* !this.placements.some(p => p.equals(next))
Unplaced(pl, next) == \A i \in 1..Len(pl) : pl[i] # next

\* Case 2: the neighbours of the last placement that lie within the grid
\* and are not placed, in the order of the loop
NeighboursOf(pl, n) ==
  LET last == pl[Len(pl)]
      next == [i \in 1..Len(Adjacent) |->
                 <<last[1] + Adjacent[i][1], last[2] + Adjacent[i][2]>>]
      Free(c) == InGrid(c, n) /\ Unplaced(pl, c)
  IN  SelectSeq(next, Free)

\* Case 3: the pairs of the two nested loops over spaces that are not placed
RemainingOf(pl, spaces) ==
  LET m == Len(spaces)
      pairs == [i \in 1..(m * m) |->
                  <<spaces[((i - 1) \div m) + 1], spaces[((i - 1) % m) + 1]>>]
      Free(c) == Unplaced(pl, c)
  IN  SelectSeq(pairs, Free)

\* _getNextLocation of the variant: the location, or the error thrown
NearestNextLocation(pl, n, r) ==
  IF Len(pl) = 0
    THEN [threw |-> FALSE, error |-> "", next |-> <<n \div 2, n \div 2>>]
  ELSE IF Len(NeighboursOf(pl, n)) > 0
    THEN [threw |-> FALSE, error |-> "", next |-> NeighboursOf(pl, n)[1]]
  ELSE LET remaining == RemainingOf(pl, ArrayFrom(n))
       IN  IF Len(remaining) = 0
             THEN [threw |-> TRUE,
                   error |-> "Failed to determine the next room location",
                   next |-> <<-1, -1>>]
             ELSE [threw |-> FALSE, error |-> "",
                   next |-> remaining[RandomIndex(r, Len(remaining))]]

\* the longest history given to _getNextLocation
MaxHistory == 3

\* the cells of the grid of n by n rooms
GridCells(n) == Coords(n) \X Coords(n)

\* histories: up to MaxHistory different cells of the small grid
Histories ==
  {h \in UNION {[1..k -> GridCells(PresetRooms("small"))] : k \in 0..MaxHistory} :
     \A i \in 1..Len(h) : \A j \in 1..Len(h) : i # j => h[i] # h[j]}

\* one call of _getNextLocation of the variant on a history of placements
ProbeNearest ==
  /\ probe = NoProbe
  /\ \E h \in Histories : \E r \in Draws :
       probe' = [op |-> "nearest", n |-> PresetRooms("small"), history |-> h,
                 out |-> NearestNextLocation(h, PresetRooms("small"), r)]
  /\ UNCHANGED genVars

CallInit == Init /\ rooms = <<>>

CallNext ==
  \/ ProbeConstraints
  \/ ProbeTestEdge
  \/ ProbeTestPermutation
  \/ ProbePermutations
  \/ ProbeTurn
  \/ TurnAgain
  \/ ProbeFlip
  \/ FlipAgain
  \/ ProbeRotate
  \/ ProbeFlipVertical
  \/ ProbeFindRooms
  \/ ProbeMinOpen
  \/ ProbeNearest

CallSpec == CallInit /\ [][CallNext]_vars

(***************************************************************************)
(* C11: _getAdjacentConstraints(x, y) gives, for each direction, roomSize  *)
(* Closed elements when the neighbour lies outside the grid, roomSize      *)
(* Unknown elements when the neighbour cell is Empty, and otherwise the    *)
(* neighbour's sequence of the opposite side, element for element; so the  *)
(* two outward sides of each corner cell are all Closed.                   *)
(***************************************************************************)
AllOf(c, v) == Len(c) = roomSize /\ \A i \in 1..Len(c) : c[i] = v

\* the neighbour of p in direction d, by the compass
Neighbour(p, d) ==
  CASE d = "n" -> <<p[1], p[2] - 1>>
    [] d = "s" -> <<p[1], p[2] + 1>>
    [] d = "e" -> <<p[1] + 1, p[2]>>
    [] d = "w" -> <<p[1] - 1, p[2]>>

C11_ConstraintsFromNeighbours ==
  probe.op = "constraints" =>
    /\ \A p \in DOMAIN probe.out : \A d \in Range(DIRECTIONS) :
         LET q == Neighbour(p, d)
             c == probe.out[p][d]
         IN IF q \notin DOMAIN probe.out THEN AllOf(c, "closed")
            ELSE IF probe.layout[q[1]][q[2]] = <<>> THEN AllOf(c, "unknown")
            ELSE /\ Len(c) = roomSize
                 /\ \A i \in 1..roomSize :
                      c[i] = probe.layout[q[1]][q[2]][1].edges[Facing(d)][i]
    /\ \A x \in {0, 2}, y \in {0, 2} :
         /\ AllOf(probe.out[<<x, y>>][IF y = 0 THEN "n" ELSE "s"], "closed")
         /\ AllOf(probe.out[<<x, y>>][IF x = 0 THEN "w" ELSE "e"], "closed")

\* the one permutation lies in the middle and shows a bent edge to a side
C11_Witness ==
  /\ probe.op = "constraints"
  /\ probe.layout[1][1] # <<>>
  /\ probe.out[<<1, 0>>].s = Bent
  /\ probe.out[<<0, 0>>].n = Rep("closed", roomSize)

(***************************************************************************)
(* C12: _testEdge(edge, constraint) is true exactly when at every index    *)
(* the constraint element is Unknown, or it is Closed and the candidate    *)
(* element is Closed, or it is Open and the candidate element is Open, of  *)
(* whatever kinds; _testPermutation is the conjunction of _testEdge over   *)
(* the four directions.                                                    *)
(***************************************************************************)
Open == {"hallway", "door", "notype"}

\* the rule for one index; the candidate has no element beyond its length
ElementMatches(edge, constraint, i) ==
  \/ constraint[i] = "unknown"
  \/ constraint[i] = "closed" /\ i \in DOMAIN edge /\ edge[i] = "closed"
  \/ constraint[i] \in Open /\ i \in DOMAIN edge /\ edge[i] \in Open

EdgeMatches(edge, constraint) ==
  \A i \in DOMAIN constraint : ElementMatches(edge, constraint, i)

C12_MatchingRule ==
  /\ probe.op = "testEdge" =>
       (probe.out <=> EdgeMatches(probe.edge, probe.constraint))
  /\ probe.op = "testPermutation" =>
       (probe.out <=>
          \A d \in {"n", "e", "s", "w"} :
            EdgeMatches(probe.permutation.edges[d], probe.constraints[d]))

\* an opening of one kind accepted against an opening of another kind
C12_Witness ==
  /\ probe.op = "testEdge"
  /\ probe.constraint = <<"hallway", "closed">>
  /\ probe.edge = <<"door", "closed">>
  /\ probe.out

(***************************************************************************)
(* C13: with a catalog of zero tiles the loop of a run ends complete, for  *)
(* every size preset, with every cell of the grid holding the Blank, and   *)
(* the export of that grid has no tile and no wall.                        *)
(***************************************************************************)
IsBlank(p) == CellAt(p) # <<>> /\ CellAt(p)[1].name = "Blank"

C13_EmptyCatalogAllBlank ==
  (rooms = <<>> /\ pc \in {"export", "done"}) =>
    /\ isComplete
    /\ \A p \in Cells : IsBlank(p)
    /\ pc = "done" => (result[1].tiles = <<>> /\ result[1].walls = <<>>)

(***************************************************************************)
(* C14: the small preset with a catalog that holds a tile whose 4 x 9      *)
(* elements are all Open.                                                  *)
(* As claimed: every run ends complete before the attempts are used up.    *)
(* As the code has it: when every tile of the catalog has all its elements *)
(* Open, with a type, no run ends complete; the center is the only cell    *)
(* ever filled and the loop ends with the attempts used up.                *)
(***************************************************************************)
AllOpenRoom(r) ==
  \A d \in {"n", "e", "s", "w"} :
    Len(r.edges[d]) = 9 /\ \A i \in 1..9 : r.edges[d][i] \in {"hallway", "door"}

C14_AllOpenTileCompletes ==
  (size = "small" /\ pc = "export"
     /\ \E i \in 1..Len(rooms) : AllOpenRoom(rooms[i])) =>
    isComplete /\ attempts < MAX_ALLOWED_ATTEMPTS

C14_AllOpenCatalogNeverCompletes ==
  (size = "small" /\ Len(rooms) > 0
     /\ \A i \in 1..Len(rooms) : AllOpenRoom(rooms[i])) =>
    /\ ~isComplete
    /\ Len(placements) <= 1
    /\ pc \in {"export", "done"} => attempts = MAX_ALLOWED_ATTEMPTS
    /\ pc # "thrown"

\* the loop has ended on a catalog of one all-open tile
C14_Witness ==
  /\ pc = "done"
  /\ size = "small"
  /\ Len(rooms) = 1
  /\ AllOpenRoom(rooms[1])
  /\ attempts = MAX_ALLOWED_ATTEMPTS
  /\ ~isComplete

Tiles == result[1].tiles

RoomCells == {p \in Cells : IsRoom(p)}

\* the tiles emitted at the world position of the cell p
TilesOf(p) ==
  {i \in 1..Len(Tiles) : /\ Tiles[i].x = p[1] * roomSize * gridSize
                         /\ Tiles[i].y = p[2] * roomSize * gridSize}

C16_OneTilePerRoomCell ==
  pc = "done" =>
    /\ Len(Tiles) = Cardinality(RoomCells)
    /\ \A p \in Cells :
         IF IsRoom(p)
           THEN /\ Cardinality(TilesOf(p)) = 1
                /\ \A i \in TilesOf(p) :
                     /\ Tiles[i].width = roomSize * gridSize
                     /\ Tiles[i].height = roomSize * gridSize
                     /\ Tiles[i].rotation = CellAt(p)[1].rotation
                     /\ Tiles[i].mirrorX = CellAt(p)[1].mirrorX
                     /\ Tiles[i].mirrorY = CellAt(p)[1].mirrorY
         ELSE TilesOf(p) = {}
    /\ result[1].width = nRooms * roomSize * gridSize
    /\ result[1].height = nRooms * roomSize * gridSize

\* a finished medium run with a tile at the center (2, 2), exported at
\* x = y = 3600, a tile off the diagonal and cells left Empty
C16_Witness ==
  /\ pc = "done"
  /\ size = "medium"
  /\ IsRoom(<<2, 2>>)
  /\ \E i \in 1..Len(Tiles) : Tiles[i].x = 3600 /\ Tiles[i].y = 3600
  /\ \E p \in RoomCells : p[1] # p[2]
  /\ \E p \in Cells : CellAt(p) = <<>>
  /\ result[1].width = 9000

(***************************************************************************)
(* C17: the wall list returned by _export holds, for each cell with a real *)
(* tile variant, each wall segment of the side bucket selected by the      *)
(* rotation of the variant (0 -> n, 90 -> e, 180 -> s, 270 -> w) once,     *)
(* translated by the world offset of the cell, and nothing else, whatever  *)
(* the rotation and the mirror flags.                                      *)
(***************************************************************************)
BucketOf(rotation) ==
  CASE rotation = 0 -> "n"
    [] rotation = 90 -> "e"
    [] rotation = 180 -> "s"
    [] rotation = 270 -> "w"

\* the segments of the selected bucket of the cell at pos, each once, moved
\* to the cell; a variant without buckets has no segment
SelectedWalls(lay, pos) ==
  LET cell == lay[pos[1]][pos[2]]
  IN IF cell = <<>> \/ cell[1].name = "Blank" \/ cell[1].walls.kind # "object"
       THEN <<>>
     ELSE TranslateWalls(cell[1].walls[BucketOf(cell[1].rotation)],
                         pos[1] * roomSize * gridSize,
                         pos[2] * roomSize * gridSize)

WallsClaimed(lay, n) ==
  Pushed([i \in 1..(n * n) |-> [walls |-> SelectedWalls(lay, AllPositions(n)[i])]],
         "walls", 1, n * n)

CountIn(seq, w) == Cardinality({i \in 1..Len(seq) : seq[i] = w})

SameEntries(a, b) ==
  /\ Len(a) = Len(b)
  /\ \A i \in 1..Len(a) : CountIn(a, a[i]) = CountIn(b, a[i])

Rotations == {0, 90, 180, 270}

Mirrors == {<<FALSE, FALSE>>, <<TRUE, FALSE>>, <<FALSE, TRUE>>}

C18_TwelveVariants ==
  probe.op = "permutations" =>
    /\ Len(probe.out) = 12
    /\ \A rot \in Rotations : \A m \in Mirrors :
         Cardinality({i \in 1..Len(probe.out) :
                        /\ probe.out[i].rotation = rot
                        /\ <<probe.out[i].mirrorX, probe.out[i].mirrorY>> = m}) = 1
    /\ \A i \in 1..Len(probe.out) :
         /\ probe.out[i].rotation \in Rotations
         /\ ~(probe.out[i].mirrorX /\ probe.out[i].mirrorY)
         /\ \A d \in Range(DIRECTIONS) :
              Len(probe.out[i].edges[d]) = probe.room.size

\* the 12 variants of a room of size 3 with walls, whose north and south
\* sides differ
C18_Witness ==
  /\ probe.op = "permutations"
  /\ probe.room.size < roomSize
  /\ probe.room.edges.n # probe.room.edges.s
  /\ probe.room.walls # <<>>
  /\ Len(probe.out) = 12

(***************************************************************************)
(* C19: four 90-degree rotations in succession of the boundary sequences   *)
(* of a tile and of the endpoints of its walls give back the original      *)
(* sequences, side by side and element by element, and the original wall   *)
(* coordinates.                                                            *)
(***************************************************************************)
C19_FourTurns ==
  (probe.op = "turn" /\ probe.turns = 4) =>
    /\ probe.edges = probe.room.edges
    /\ probe.walls = probe.room.walls

\* four turns of a room whose sides differ, one of them not a palindrome,
\* and which has walls
C19_Witness ==
  /\ probe.op = "turn"
  /\ probe.turns = 4
  /\ probe.room.edges.n = Bent
  /\ probe.room.edges.e = Door
  /\ probe.room.edges.s = Wall9
  /\ probe.room.walls # <<>>

(***************************************************************************)
(* C20: flipHorizontal applied twice to room data returns boundary         *)
(* sequences equal to the original on all four sides, in the same element  *)
(* order.                                                                  *)
(***************************************************************************)
C20_FlipTwice ==
  (probe.op = "flipHorizontal" /\ probe.flips = 2) =>
    probe.out.edges = probe.data.edges

\* two flips of data whose east and west sides differ
C20_Witness ==
  /\ probe.op = "flipHorizontal"
  /\ probe.flips = 2
  /\ probe.data.edges.e # probe.data.edges.w
  /\ probe.data.edges.e = Bent
  /\ probe.out.mirrorX

(***************************************************************************)
(* C21: for k in 1, 2, 3 the variant that rotate produces with rotation    *)
(* 90 * k has on each direction d the boundary sequence that the source    *)
(* tile has on the direction k quarter turns before d in the order n, e,   *)
(* s, w (for 90 degrees: new n = old w, new e = old n, new s = old e, new  *)
(* w = old s).                                                             *)
(***************************************************************************)
\* the direction k quarter turns before d in the order n, e, s, w
TurnedBack(d, k) == DIRECTIONS[((DirIndex(d) - 1 + 4 - k) % 4) + 1]

C21_RotateBringsSidesForward ==
  probe.op = "rotate" =>
    \A k \in 1..3 :
      probe.out.rotation = 90 * k =>
        \A d \in Range(DIRECTIONS) :
          probe.out.edges[d] = probe.room.edges[TurnedBack(d, k)]

(***************************************************************************)
(* C22: flipHorizontal swaps the east and west boundary sequences and      *)
(* reverses the element order of the north and south sequences;            *)
(* flipVertical swaps the north and south sequences and reverses the       *)
(* element order of the east and west sequences.                           *)
(***************************************************************************)
Reverse(seq) == [i \in 1..Len(seq) |-> seq[Len(seq) + 1 - i]]

C22_FlipsSwapAndReverse ==
  /\ (probe.op = "flipHorizontal" /\ probe.flips = 1) =>
       /\ probe.out.edges.e = probe.data.edges.w
       /\ probe.out.edges.w = probe.data.edges.e
       /\ probe.out.edges.n = Reverse(probe.data.edges.n)
       /\ probe.out.edges.s = Reverse(probe.data.edges.s)
  /\ probe.op = "flipVertical" =>
       /\ probe.out.edges.n = probe.data.edges.s
       /\ probe.out.edges.s = probe.data.edges.n
       /\ probe.out.edges.e = Reverse(probe.data.edges.e)
       /\ probe.out.edges.w = Reverse(probe.data.edges.w)

(***************************************************************************)
(* C23: every mirrored variant returned by getPermutations carries as many *)
(* wall segments as the unmirrored variant of the same rotation, each      *)
(* endpoint (x, y) of which has become (max - x, y) for a horizontal       *)
(* mirror and (x, max - y) for a vertical mirror, max being the pixel      *)
(* extent of the tile.                                                     *)
(***************************************************************************)
Extent == roomSize * gridSize

MirroredWall(c, mirrorX, mirrorY) ==
  IF mirrorX THEN <<Extent - c[1], c[2], Extent - c[3], c[4]>>
  ELSE IF mirrorY THEN <<c[1], Extent - c[2], c[3], Extent - c[4]>>
  ELSE c

\* the walls m are the walls u, segment by segment, mirrored
MirroredWalls(m, u, mirrorX, mirrorY) ==
  /\ m.kind = u.kind
  /\ \A d \in Range(DIRECTIONS) :
       /\ Len(m[d]) = Len(u[d])
       /\ \A k \in 1..Len(u[d]) :
            k <= Len(m[d]) => m[d][k] = MirroredWall(u[d][k], mirrorX, mirrorY)

C23_MirroredVariantsMirrorWalls ==
  (probe.op = "permutations" /\ probe.room.size = roomSize) =>
    \A i \in 1..Len(probe.out) : \A j \in 1..Len(probe.out) :
      ( /\ probe.out[i].mirrorX \/ probe.out[i].mirrorY
        /\ ~probe.out[j].mirrorX /\ ~probe.out[j].mirrorY
        /\ probe.out[i].rotation = probe.out[j].rotation )
      => MirroredWalls(probe.out[i].walls, probe.out[j].walls,
                       probe.out[i].mirrorX, probe.out[i].mirrorY)

(***************************************************************************)
(* C24: for every variant that getPermutations produces with rotation      *)
(* 90 * k, the wall segments of the side bucket that _export selects for   *)
(* that rotation are the wall segments of the source tile with the         *)
(* clockwise point transform (x, y) -> (max - y, x) applied exactly k      *)
(* times to both endpoints.                                                *)
(***************************************************************************)
Clockwise(c) == <<Extent - c[2], c[1], Extent - c[4], c[3]>>

ClockwiseTimes(c, k) ==
  CASE k = 0 -> c
    [] k = 1 -> Clockwise(c)
    [] k = 2 -> Clockwise(Clockwise(c))
    [] k = 3 -> Clockwise(Clockwise(Clockwise(c)))

\* the walls of the bucket that _export reads for the variant v; a variant
\* whose walls are not keyed by direction has none
ExportedBucket(v) ==
  IF v.walls.kind = "object" THEN v.walls[BucketOf(v.rotation)] ELSE <<>>

C24_SelectedBucketIsTurnedSource ==
  probe.op = "permutations" =>
    \A i \in 1..Len(probe.out) :
      ExportedBucket(probe.out[i]) =
        [j \in 1..Len(probe.room.walls) |->
           ClockwiseTimes(probe.room.walls[j], probe.out[i].rotation \div 90)]

(***************************************************************************)
(* C25: every variant returned by getPermutations equals the result of     *)
(* first mirroring the canonical data of the tile and then rotating the    *)
(* mirrored data: variant(r, m) = rotate_r(mirror_m(tile)).                *)
(***************************************************************************)
\* flipHorizontal or flipVertical of the edges, by the flags of a variant
MirrorEdges(edges, mirrorX, mirrorY) ==
  IF mirrorX THEN [edges EXCEPT !.e = edges.w, !.w = edges.e]
  ELSE IF mirrorY THEN [edges EXCEPT !.n = edges.s, !.s = edges.n]
  ELSE edges

\* the walls array after flipHorizontal; flipVertical leaves it alone
MirrorItems(items, mirrorX) ==
  IF mirrorX THEN FlipWallsHorizontally(WallsArray(items)).items ELSE items

DirectionOf(rotation) == DIRECTIONS[(rotation \div 90) + 1]

C25_MirrorThenRotate ==
  probe.op = "permutations" =>
    \A i \in 1..Len(probe.out) :
      /\ probe.out[i].edges =
           RotateEdges(DirectionOf(probe.out[i].rotation),
                       MirrorEdges(probe.room.edges, probe.out[i].mirrorX,
                                   probe.out[i].mirrorY))
      /\ probe.out[i].walls =
           RotateWalls(DirectionOf(probe.out[i].rotation),
                       MirrorItems(probe.room.walls, probe.out[i].mirrorX))

(***************************************************************************)
(* C26: whatever rotate, flipHorizontal, flipVertical, getPermutations,    *)
(* generate and _export do, the data of every tile of the catalog (name,   *)
(* size, boundary sequences, wall coordinates) stays what it was when the  *)
(* catalog was loaded.                                                     *)
(***************************************************************************)
C26_CatalogNeverWritten == [][rooms' = rooms]_vars

\* generate has returned and _export has moved, in the layout, the walls of
\* an unmirrored rotation-0 variant of a tile of the catalog
C26_Witness ==
  /\ pc = "done"
  /\ \E p \in RoomCells :
       /\ p # <<0, 0>>
       /\ CellAt(p)[1].rotation = 0
       /\ CellAt(p)[1].walls.kind = "object"
       /\ CellAt(p)[1].walls.n # <<>>
       /\ \E i \in 1..Len(rooms) :
            /\ rooms[i].name = CellAt(p)[1].name
            /\ rooms[i].walls # <<>>
            /\ rooms[i].walls # CellAt(p)[1].walls.n

(***************************************************************************)
(* C27: findRooms({minOpen, maxOpen}) returns exactly the tiles of the     *)
(* catalog whose number of Open boundary segments over the four sides lies *)
(* within every bound that is given (an absent bound does not constrain),  *)
(* in the order of the catalog, for every catalog whose segments are Open, *)
(* Closed or Unknown.                                                      *)
(***************************************************************************)
OpenSegments(r) ==
  Cardinality({i \in 1..Len(FlatEdges(r.edges)) :
                 FlatEdges(r.edges)[i] \notin {"closed", "unknown"}})

WithinBounds(r, minOpen, maxOpen) ==
  /\ Len(minOpen) = 1 => OpenSegments(r) >= minOpen[1]
  /\ Len(maxOpen) = 1 => OpenSegments(r) <= maxOpen[1]

RECURSIVE Kept(_, _, _)
Kept(catalog, minOpen, maxOpen) ==
  IF catalog = <<>> THEN <<>>
  ELSE (IF WithinBounds(catalog[1], minOpen, maxOpen)
          THEN <<catalog[1]>> ELSE <<>>)
       \o Kept(Tail(catalog), minOpen, maxOpen)

C27_FindRoomsFiltersByOpenCount ==
  probe.op = "findRooms" =>
    /\ ~probe.threw
    /\ probe.out = Kept(probe.catalog, probe.minOpen, probe.maxOpen)

(***************************************************************************)
(* C28: two runs on the same catalog with the same options and the same    *)
(* sequence of random draws go through the same commits and backtracks and *)
(* end with the same layout and the same attempt count.  Both runs start   *)
(* from the state that the catalog and the options fix, and every step of  *)
(* a run is fixed by the state it starts from and by the draws of that     *)
(* step, so the two runs agree step by step.                               *)
(***************************************************************************)
\* the run starts from the state fixed by the catalog and the options
FreshRun ==
  /\ nRooms' = PresetRooms(size')
  /\ layout' = EmptyLayout(nRooms')
  /\ placements' = <<>>
  /\ attempts' = 0
  /\ ~isComplete'
  /\ rooms' = rooms

\* the iteration of the loop with the location draw rl and the permutation
\* draw rp: one outcome, a commit or a failure
IterationWith(rl, rp) ==
  IF TryPermutations(rooms, layout, placements, nRooms, rl).ok
    THEN /\ pc' = "loop"
         /\ placements' = Append(placements,
              <<TryPermutations(rooms, layout, placements, nRooms, rl).x,
                TryPermutations(rooms, layout, placements, nRooms, rl).y>>)
         /\ layout' = [layout EXCEPT ![Last(placements')[1]][Last(placements')[2]] =
              <<Chosen(TryPermutations(rooms, layout, placements, nRooms,
                                       rl).permutations, rp)>>]
         /\ isComplete' = (Len(placements') = roomSize)
  ELSE /\ pc' = "catch"
       /\ placements' = placements
       /\ layout' = layout
       /\ isComplete' = isComplete

UndoesLastCommit ==
  /\ Len(placements') = Len(placements) - 1
  /\ \A i \in 1..Len(placements') : placements'[i] = placements[i]
  /\ layout'[Last(placements)[1]][Last(placements)[2]] = <<>>
  /\ \A p \in Cells :
       p # Last(placements) => layout'[p[1]][p[2]] = CellAt(p)

C29_BacktrackThenRetry ==
  [][/\ (pc = "loop" /\ pc' = "catch") =>
          layout' = layout /\ placements' = placements
     /\ (pc = "catch" /\ placements # <<>>) =>
          /\ UndoesLastCommit
          /\ pc' = "loop" /\ ~isComplete'
          /\ attempts' < MAX_ALLOWED_ATTEMPTS
    ]_vars

\* as stated, except that a new attempt follows only while the attempt
\* counter is below the maximum: otherwise the loop ends
C29_BacktrackUndoesLastCommit ==
  [][/\ (pc = "loop" /\ pc' = "catch") =>
          layout' = layout /\ placements' = placements
     /\ (pc = "catch" /\ placements # <<>>) =>
          /\ UndoesLastCommit
          /\ pc' = "loop" /\ ~isComplete'
     /\ (pc = "loop" /\ ~isComplete) =>
          IF attempts < MAX_ALLOWED_ATTEMPTS
            THEN pc' \in {"loop", "catch"} /\ attempts' = attempts + 1
          ELSE pc' = "export" /\ placements' = placements
    ]_vars

\* back in the loop after a backtrack that left a shorter history behind
C29_Witness ==
  /\ pc = "loop"
  /\ Len(placements) >= 1
  /\ attempts > Len(placements)
  /\ \E p \in Cells : CellAt(p) = <<>>

(***************************************************************************)
(* C30: whenever the history is not empty and at least one required cell   *)
(* exists (an Empty cell of the grid next to a placed cell that has an     *)
(* Open boundary segment on the side facing it), the cell chosen by        *)
(* _getNextLocation is a required cell; a filler cell (any other Empty     *)
(* cell) is chosen only when no required cell exists.                      *)
(***************************************************************************)
HasOpen(seq) == \E i \in 1..Len(seq) : seq[i] \notin {"closed", "unknown"}

RequiredCells ==
  {p \in Cells :
     /\ CellAt(p) = <<>>
     /\ \E d \in Range(DIRECTIONS) :
          /\ Neighbour(p, d) \in Filled
          /\ HasOpen(CellAt(Neighbour(p, d))[1].edges[Facing(d)])}

\* the cell of a location <<x, y, type>>
CellOf(loc) == <<loc[1], loc[2]>>

C30_RequiredCellsFirst ==
  (pc = "loop" /\ placements # <<>>) =>
    \A r \in Draws :
      IF RequiredCells # {}
        THEN /\ CellOf(GetNextLocation(layout, placements, nRooms, r))
                  \in RequiredCells
             /\ GetNextLocation(layout, placements, nRooms, r)[3] = "adjacent"
      ELSE Filled # Cells =>
             /\ CellOf(GetNextLocation(layout, placements, nRooms, r))
                  \in Cells \ Filled
             /\ GetNextLocation(layout, placements, nRooms, r)[3] = "blank"

\* a layout with required cells and other Empty cells, the next cell to be
\* drawn
C30_Witness ==
  /\ pc = "loop"
  /\ ~isComplete
  /\ Len(placements) >= 2
  /\ RequiredCells # {}
  /\ \E p \in Cells : CellAt(p) = <<>> /\ p \notin RequiredCells

(***************************************************************************)
(* C31: for a filler cell, the candidates of a placement attempt are the   *)
(* variants of every tile of the catalog, unfiltered; Blank is committed   *)
(* to a filler cell only when no variant of any tile of the catalog        *)
(* satisfies the constraints of the cell.                                  *)
(***************************************************************************)
\* the next attempt is made on a filler cell
FillerNext ==
  /\ pc = "loop" /\ ~isComplete /\ attempts < MAX_ALLOWED_ATTEMPTS
  /\ placements # <<>>
  /\ RequiredCells = {}
  /\ Filled # Cells

\* the constraints of the cell of the location loc
ConstraintsAt(loc) == GetAdjacentConstraints(layout, nRooms, loc[1], loc[2])

\* the variants of the tiles of the catalog that satisfy the constraints c
Satisfying(c) ==
  {pm \in UNION {Range(GetPermutations(rooms[i])) : i \in 1..Len(rooms)} :
     TestPermutation(pm, c)}

\* what the attempt at the location loc may commit
Committable(loc) ==
  Range(TryAt(rooms, layout, placements, nRooms, loc).permutations)

C31_FillerTakesCatalogFirst ==
  FillerNext =>
    \A r \in Draws :
      Committable(GetNextLocation(layout, placements, nRooms, r)) =
        IF Satisfying(ConstraintsAt(
             GetNextLocation(layout, placements, nRooms, r))) # {}
          THEN Satisfying(ConstraintsAt(
                 GetNextLocation(layout, placements, nRooms, r)))
        ELSE {GetBlankPermutation}

\* a filler cell is given the Blank, whatever the catalog holds
C31_FillerTakesBlank ==
  FillerNext =>
    \A r \in Draws :
      /\ GetNextLocation(layout, placements, nRooms, r)[3] = "blank"
      /\ TryAt(rooms, layout, placements, nRooms,
               GetNextLocation(layout, placements, nRooms, r)).ok
      /\ Committable(GetNextLocation(layout, placements, nRooms, r)) =
           {GetBlankPermutation}

\* a filler cell whose constraints a variant of a tile of the catalog
\* satisfies
C31_Witness ==
  /\ FillerNext
  /\ \E r \in Draws :
       Satisfying(ConstraintsAt(
         GetNextLocation(layout, placements, nRooms, r))) # {}

(***************************************************************************)
(* C32: for a required cell, the minimum-open-segment bound passed to      *)
(* findRooms is determined by the number of the four constraint sides of   *)
(* the cell that are not Closed: two required cells with the same number   *)
(* of non-Closed constraint sides get the same bound.                      *)
(***************************************************************************)
\* the number of sides of the constraints c that are not Closed throughout
NonClosedSides(c) ==
  Cardinality({d \in Range(DIRECTIONS) :
                 \E i \in 1..Len(c[d]) : c[d][i] # "closed"})

\* the number of Open segments of the constraints c, over the four sides
OpenSegmentsOf(c) ==
  Cardinality({<<d, i>> \in Range(DIRECTIONS) \X (1..roomSize) :
                 i <= Len(c[d]) /\ c[d][i] \notin {"closed", "unknown"}})

C32_BoundFromNonClosedSides ==
  probe.op = "minOpen" =>
    (NonClosedSides(probe.first) = NonClosedSides(probe.second)
       => probe.out1 = probe.out2)

\* the bound is the number of Open segments of the four constraint sides
C32_BoundIsOpenSegments ==
  probe.op = "minOpen" =>
    /\ probe.out1 = OpenSegmentsOf(probe.first)
    /\ probe.out2 = OpenSegmentsOf(probe.second)
    /\ (OpenSegmentsOf(probe.first) = OpenSegmentsOf(probe.second)
          => probe.out1 = probe.out2)

\* two cells with one non-Closed side each, a door and an open side
C32_Witness ==
  /\ probe.op = "minOpen"
  /\ NonClosedSides(probe.first) = 1
  /\ NonClosedSides(probe.second) = 1
  /\ probe.first.n = Door
  /\ probe.second.n = Open9
  /\ probe.out1 # probe.out2

(***************************************************************************)
(* C33: at the start of every generate call, whatever state the previous   *)
(* run left behind (complete, budget exhausted or aborted), the placement  *)
(* history is empty, every cell of the layout is Empty, the grid has the   *)
(* dimension of the requested preset and the attempt counter is 0.         *)
(***************************************************************************)
PresetDimension ==
  CASE size = "small" -> 3
    [] size = "medium" -> 5
    [] size = "large" -> 7

\* the grid is a square of the given dimension and all its cells are Empty
EmptyGrid(dimension) ==
  /\ DOMAIN layout = 0..(dimension - 1)
  /\ \A x \in DOMAIN layout :
       /\ DOMAIN layout[x] = 0..(dimension - 1)
       /\ \A y \in DOMAIN layout[x] : layout[x][y] = <<>>

C33_EveryRunStartsClean ==
  [][(pc \in {"idle", "done", "thrown"} /\ pc' = "loop") =>
       /\ placements' = <<>>
       /\ EmptyGrid(PresetDimension)'
       /\ nRooms' = PresetDimension'
       /\ attempts' = 0]_vars

\* what a run left behind when generate is called again: a complete layout,
\* an exhausted budget, or nothing after the error of _backtrack
C33_Witness ==
  \/ pc = "done" /\ isComplete /\ Filled # {} /\ attempts > 0
  \/ pc = "done" /\ ~isComplete /\ attempts = MAX_ALLOWED_ATTEMPTS /\ Filled # {}
  \/ pc = "thrown" /\ attempts > 0

(***************************************************************************)
(* C34: the min-open filter of _try never excludes a usable tile: in every *)
(* reachable state of the grid and for every required cell, each tile of   *)
(* the catalog that has a variant satisfying the constraints of the cell   *)
(* has an open-segment count (nOpen) at least equal to the minOpen bound   *)
(* computed from those constraints, so findRooms returns it.               *)
(***************************************************************************)
\* the tile r has a variant that satisfies the constraints c
Usable(r, c) ==
  \E pm \in Range(GetPermutations(r)) : TestPermutation(pm, c)

C34_FilterKeepsUsableTiles ==
  (pc = "loop" /\ placements # <<>>) =>
    \A p \in RequiredCells : \A i \in 1..Len(rooms) :
      Usable(rooms[i], ConstraintsAt(p)) =>
        /\ ~FindRoomsThrows(rooms)
        /\ NOpen(rooms[i]) >= MinOpen(placements, ConstraintsAt(p))
        /\ rooms[i] \in Range(FindRooms(rooms,
                                         MinOpen(placements, ConstraintsAt(p))))

(***************************************************************************)
(* C35: a placement attempt made while the history is empty never fails,   *)
(* whatever the catalog and the preset: the constraints of the centre cell *)
(* are all Unknown and at least the Blank satisfies them.  So _backtrack   *)
(* is never called with an empty history and the error "We failed          *)
(* completely" is never raised.                                            *)
(***************************************************************************)
C35_FirstAttemptNeverFails ==
  /\ (pc = "loop" /\ placements = <<>>) =>
       \A rl \in Draws :
         TryPermutations(rooms, layout, placements, nRooms, rl).ok
  /\ ~(pc = "catch" /\ placements = <<>>)
  /\ pc # "thrown"
  /\ error # "We failed completely"

(***************************************************************************)
(* C36: in the nearest-neighbour variant, when the history is not empty    *)
(* and the last placed cell has no unplaced neighbour within the grid      *)
(* while unplaced cells remain elsewhere, _getNextLocation returns one of  *)
(* the remaining unplaced cells; it raises "Failed to determine the next   *)
(* room location" only when no unplaced cell remains.                      *)
(***************************************************************************)
\* the cells of the grid that the history does not hold
UnplacedCells(h, n) == {c \in GridCells(n) : Unplaced(h, c)}

\* the last placed cell has no unplaced neighbour within the grid
Cornered(h, n) ==
  /\ Len(h) > 0
  /\ \A c \in UnplacedCells(h, n) :
       (c[1] - h[Len(h)][1]) * (c[1] - h[Len(h)][1])
         + (c[2] - h[Len(h)][2]) * (c[2] - h[Len(h)][2]) # 1

Run ==
  /\ pc \in {"loop", "catch", "export"}
  /\ pc' \in {"loop", "catch", "export", "thrown", "done"}
  /\ attempts' \in {attempts, attempts + 1}

FairSpec == Spec /\ WF_<<pc, attempts>>(Run)

====
